---- MODULE Spec2Model ----
(***************************************************************************)
(* Model of goxel's image.c: the document (image_t) with its three lists   *)
(* (layers, cameras, materials), the layer/camera/material lifecycle       *)
(* operations, and the snapshot history (push / undo / redo).              *)
(*                                                                         *)
(* Pointers are addresses: every layer_t, camera_t, material_t and image_t *)
(* has an address, NULL is 0, and calloc returns the smallest free address *)
(* of its kind.  A utlist list is the sequence of its elements in next     *)
(* order.  The live document is the image_t at address IMG (goxel.image).  *)
(***************************************************************************)
EXTENDS Integers, Sequences, FiniteSets, TLC

\* ------------------------------------------------------------------ bounds
MaxLayers == 3      \* layers in the live document
MaxCameras == 2     \* cameras in the live document
MaxMaterials == 2   \* materials in the live document
MaxHistory == 3     \* nodes in the history chain, the live document included
MaxVoxel == 1       \* voxel positions a mesh can hold
MaxOps == 4         \* operations called, any operation (Spec)
MaxLayerOps == 5    \* operations called, layer and history operations
                    \* (SpecLayers)
MaxHistoryOps == 7  \* operations called, history operations and a few
                    \* mutations (SpecHistory)
MaxTrimOps == 6     \* operations called, history operations with
                    \* image_history_resize (SpecTrim)
MaxMoveOps == 6     \* operations called, layers added, deleted and moved
                    \* (SpecMove)
MaxMaterialOps == 6 \* operations called, material, layer and history
                    \* operations (SpecMaterial)
MaxCameraOps == 6   \* operations called, camera and history operations
                    \* (SpecCamera)
MaxCloneOps == 5    \* operations called, clone, delete, merge, add and history
                    \* operations (SpecClone)
MaxShift == 1       \* largest translation a layer's matrix holds
MaxUpdateOps == 6   \* operations called, clone operations and image_update
                    \* (SpecUpdate)

NULL == 0
IMG == 0

VARIABLES
    history,    \* img->history: the chain, a sequence of image_t addresses
    images,     \* image_t address -> content of that image_t
    heap,       \* allocated layer_t / camera_t / material_t addresses
    err,        \* "none", or how the process ended: "assert" (a failed assert
                \* aborts; a build with NDEBUG goes on instead) or "segv"
    pushed,     \* history variable: the document as image_history_push last
                \* saw it, while only mutations, and then one undo, followed
    undone,     \* history variable: the chain and the images as the last
                \* image_undo found them, while a redo comes right after it
    ops         \* number of operations the caller has still to call

vars == <<history, images, heap, err, pushed, undone, ops>>

\* ----------------------------------------------------------- list helpers
Min(S) == CHOOSE x \in S : \A y \in S : x <= y

\* calloc: the smallest address not in use
Alloc(used) == Min({a \in 1..(Cardinality(used) + 1) : a \notin used})

Addrs(list) == {list[i].addr : i \in 1..Len(list)}

InList(list, a) == \E i \in 1..Len(list) : list[i].addr = a

Pos(list, a) == CHOOSE i \in 1..Len(list) : list[i].addr = a

\* position of the element a pointer names, 0 for NULL or a pointer that
\* names no element of the list
PosOrNull(list, a) == IF InList(list, a) THEN Pos(list, a) ELSE 0

\* DL_APPEND(head, add); appending the only element of a list to that list
\* again (image_new does so) relinks it to itself and leaves the list alone
DL_APPEND(list, add) ==
    IF Len(list) = 1 /\ list[1].addr = add.addr THEN <<add>>
    ELSE Append(list, add)

\* DL_DELETE(head, del)
DL_DELETE(list, del) == SelectSeq(list, LAMBDA e : e.addr # del)

\* DL_PREPEND_ELEM(head, el, add): add is linked in right before el
DL_PREPEND_ELEM(list, el, add) ==
    LET i == Pos(list, el)
    IN SubSeq(list, 1, i - 1) \o <<add>> \o SubSeq(list, i, Len(list))

\* the same three macros on the chain, whose elements are bare addresses
DL_DELETE2(chain, del) == SelectSeq(chain, LAMBDA e : e # del)

DL_APPEND2(chain, add) == Append(chain, add)

DL_PREPEND_ELEM2(chain, el, add) ==
    LET i == CHOOSE j \in 1..Len(chain) : chain[j] = el
    IN SubSeq(chain, 1, i - 1) \o <<add>> \o SubSeq(chain, i, Len(chain))

\* ------------------------------------------------------------------ names
\* A name is the text  base ["." num] {" clone"}  kept as its three parts.
Name(base, num, clones) == [base |-> base, num |-> num, clones |-> clones]

NoName == Name("", 0, 0)

\* tolower on the letters of a base
Lower(s) ==
    CASE s = "Layer" -> "layer"
      [] s = "Camera" -> "camera"
      [] s = "Material" -> "material"
      [] OTHER -> s

\* strcasecmp(a, b) == 0
strcasecmp_eq(a, b) ==
    /\ Lower(a.base) = Lower(b.base)
    /\ a.num = b.num
    /\ a.clones = b.clones

material_name_exists(img, name) ==
    \E i \in 1..Len(img.materials) : strcasecmp_eq(img.materials[i].name, name)

layer_name_exists(img, name) ==
    \E i \in 1..Len(img.layers) : strcasecmp_eq(img.layers[i].name, name)

camera_name_exists(img, name) ==
    \E i \in 1..Len(img.cameras) : strcasecmp_eq(img.cameras[i].name, name)

\* the call name_exists(user, name) through the function pointer, which
\* is one of the three functions above
name_exists(f, user, name) ==
    CASE f = "layer_name_exists" -> layer_name_exists(user, name)
      [] f = "camera_name_exists" -> camera_name_exists(user, name)
      [] f = "material_name_exists" -> material_name_exists(user, name)

\* for (i = 1; ; i++): the first "<base>.<i>" that name_exists rejects
make_uniq_name(base, user, f) ==
    LET n == Len(user.layers) + Len(user.cameras) + Len(user.materials) + 1
        i == CHOOSE k \in 1..n :
                /\ ~name_exists(f, user, Name(base, k, 0))
                /\ \A j \in 1..(k - 1) : name_exists(f, user, Name(base, j, 0))
    IN Name(base, i, 0)

\* ----------------------------------------------------------------- meshes
\* A mesh is the set of voxel positions it fills.
Voxels == 1..MaxVoxel

mesh_new == {}

mesh_copy(mesh) == mesh

\* the content key of a mesh: one bit per filled voxel
RECURSIVE mesh_get_key(_)
mesh_get_key(mesh) ==
    IF mesh = {} THEN 0
    ELSE LET v == Min(mesh) IN 2 ^ (v - 1) + mesh_get_key(mesh \ {v})

\* mesh_merge(mesh, other, MODE_OVER, NULL): other is composited onto mesh
mesh_merge(mesh, other) == mesh \cup other

\* mesh_set(mesh, other): mesh gets the content of other
mesh_set(mesh, other) == other

\* A matrix is the translation it holds, 0 for the identity.
\* mesh_move(mesh, mat): every voxel is moved by the matrix
mesh_move(mesh, mat) == {v + mat : v \in mesh}

mesh_clear(mesh) == {}

\* mesh_op(mesh, painter, mat) with the painter of image_update: the shape,
\* one voxel at the origin, is placed by the matrix and painted over mesh
mesh_op(mesh, mat) == mesh \cup mesh_move({1}, mat)

\* crc32 over mat, shape and color: of these only mat ever differs between
\* two layers that have a shape; no such key is 0
shape_crc32(layer) == 1 + layer.mat

\* ----------------------------------------------------------------- layers
layer_new(a, name) ==
    [addr |-> a, id |-> 0, name |-> name, visible |-> FALSE,
     material |-> NULL, mesh |-> mesh_new, base_id |-> 0,
     base_mesh_key |-> 0, shape |-> FALSE, mat |-> 0, shape_key |-> 0]

\* layer_copy: a new layer_t with every field of other
layer_copy(a, other) == [other EXCEPT !.addr = a, !.mesh = mesh_copy(other.mesh)]

layer_clone(a, other) ==
    [addr |-> a, id |-> 0,
     name |-> Name(other.name.base, other.name.num, other.name.clones + 1),
     visible |-> other.visible, material |-> other.material,
     mesh |-> mesh_copy(other.mesh), base_id |-> other.id,
     base_mesh_key |-> mesh_get_key(other.mesh), shape |-> FALSE,
     mat |-> 0, shape_key |-> 0]

camera_new(a, name) == [addr |-> a, name |-> name]

material_new(a, name) == [addr |-> a, name |-> name]

LayerAt(img, a) == img.layers[Pos(img.layers, a)]

\* img_get_layer, where the id names a layer of the list
img_get_layer(img, id) ==
    IF id = 0 THEN NULL
    ELSE IF \E i \in 1..Len(img.layers) : img.layers[i].id = id
    THEN img.layers[CHOOSE i \in 1..Len(img.layers) :
                        /\ img.layers[i].id = id
                        /\ \A j \in 1..(i - 1) : img.layers[j].id # id].addr
    ELSE NULL

\* img_get_layer reaches its assert(false)
img_get_layer_fails(img, id) ==
    id # 0 /\ \A i \in 1..Len(img.layers) : img.layers[i].id # id

\* an id allocator that counts the layers
img_get_new_id_count(img) == Len(img.layers) + 1

\* for (id = 1;; id++): the first id no layer of the list has
img_get_new_id(img) ==
    CHOOSE id \in 1..(Len(img.layers) + 1) :
        /\ \A i \in 1..Len(img.layers) : img.layers[i].id # id
        /\ \A k \in 1..(id - 1) : \E i \in 1..Len(img.layers) : img.layers[i].id = k

EmptyImage ==
    [layers |-> <<>>, active_layer |-> NULL,
     cameras |-> <<>>, active_camera |-> NULL,
     materials |-> <<>>, active_material |-> NULL,
     saved_key |-> 0]

EmptyHeap == [layers |-> {}, cameras |-> {}, materials |-> {}]


St(img, hp) == [img |-> img, heap |-> hp]

SetLayer(img, a, layer) == [img EXCEPT !.layers[Pos(img.layers, a)] = layer]

\* ----------------------------------------------- entity lifecycle (layers)
\* image_add_layer(img, NULL)
image_add_layer(img, hp) ==
    LET a == Alloc(hp.layers)
        layer == [layer_new(a, make_uniq_name("Layer", img, "layer_name_exists"))
                    EXCEPT !.visible = TRUE,
                           !.id = img_get_new_id(img),
                           !.material = img.active_material]
    IN St([img EXCEPT !.layers = DL_APPEND(@, layer), !.active_layer = a],
          [hp EXCEPT !.layers = @ \cup {a}])

image_add_shape_layer(img, hp) ==
    LET a == Alloc(hp.layers)
        layer == [layer_new(a, Name("shape", 0, 0))
                    EXCEPT !.visible = TRUE,
                           !.shape = TRUE,
                           !.id = img_get_new_id(img)]
    IN St([img EXCEPT !.layers = DL_APPEND(@, layer), !.active_layer = a],
          [hp EXCEPT !.layers = @ \cup {a}])

\* image_delete_layer without the placeholder for an emptied list
image_delete_layer_no_placeholder(img, hp, layer) ==
    LET del == LayerAt(img, layer)
        l1 == DL_DELETE(img.layers, layer)
        act1 == IF layer = img.active_layer THEN NULL ELSE img.active_layer
        l2 == [i \in 1..Len(l1) |->
                 IF l1[i].base_id = del.id THEN [l1[i] EXCEPT !.base_id = 0]
                 ELSE l1[i]]
        act2 == IF act1 = NULL /\ l2 # <<>> THEN l2[Len(l2)].addr ELSE act1
    IN St([img EXCEPT !.layers = l2, !.active_layer = act2],
          [hp EXCEPT !.layers = @ \ {layer}])

\* image_delete_layer(img, layer), layer a layer of img; img is goxel.image,
\* so the list the unclone loop walks is img->layers
image_delete_layer(img, hp, layer) ==
    LET del == LayerAt(img, layer)
        l1 == DL_DELETE(img.layers, layer)
        act1 == IF layer = img.active_layer THEN NULL ELSE img.active_layer
        l2 == [i \in 1..Len(l1) |->
                 IF l1[i].base_id = del.id THEN [l1[i] EXCEPT !.base_id = 0]
                 ELSE l1[i]]
        hp1 == [hp EXCEPT !.layers = @ \ {layer}]
        a == Alloc(hp1.layers)
        ph == [layer_new(a, Name("unnamed", 0, 0))
                 EXCEPT !.visible = TRUE,
                        !.id = img_get_new_id([img EXCEPT !.layers = l2])]
        l3 == IF l2 = <<>> THEN DL_APPEND(l2, ph) ELSE l2
        hp2 == IF l2 = <<>> THEN [hp1 EXCEPT !.layers = @ \cup {a}] ELSE hp1
        act2 == IF act1 = NULL THEN l3[Len(l3)].addr ELSE act1
    IN St([img EXCEPT !.layers = l3, !.active_layer = act2], hp2)

\* image_move_layer that takes layer->prev whatever d is
image_move_layer_toward_head(img, hp, layer, d) ==
    LET i == Pos(img.layers, layer)
    IN IF i = 1 THEN St(img, hp)
       ELSE St([img EXCEPT !.layers =
                  DL_PREPEND_ELEM(DL_DELETE(@, layer), img.layers[i - 1].addr,
                                  img.layers[i])],
               hp)

\* image_move_layer(img, layer, d), d = -1 or +1
image_move_layer(img, hp, layer, d) ==
    LET i == Pos(img.layers, layer)
        n == Len(img.layers)
    IN IF d = -1
       THEN IF i = n THEN St(img, hp)
            ELSE LET next == img.layers[i + 1]
                 IN St([img EXCEPT !.layers =
                          DL_PREPEND_ELEM(DL_DELETE(@, next.addr), layer, next)],
                       hp)
       ELSE IF i = 1 THEN St(img, hp)
            ELSE LET prev == img.layers[i - 1]
                 IN St([img EXCEPT !.layers =
                          DL_PREPEND_ELEM(DL_DELETE(@, layer), prev.addr,
                                          img.layers[i])],
                       hp)

image_duplicate_layer(img, hp, other) ==
    LET a == Alloc(hp.layers)
        layer == [layer_copy(a, LayerAt(img, other))
                    EXCEPT !.visible = TRUE, !.id = img_get_new_id(img)]
    IN St([img EXCEPT !.layers = DL_APPEND(@, layer), !.active_layer = a],
          [hp EXCEPT !.layers = @ \cup {a}])

image_clone_layer(img, hp, other) ==
    LET a == Alloc(hp.layers)
        layer == [layer_clone(a, LayerAt(img, other))
                    EXCEPT !.visible = TRUE, !.id = img_get_new_id(img)]
    IN St([img EXCEPT !.layers = DL_APPEND(@, layer), !.active_layer = a],
          [hp EXCEPT !.layers = @ \cup {a}])

\* image_unclone_layer on the layer_t itself
unclone(layer) == [layer EXCEPT !.base_id = 0, !.shape = FALSE]

image_unclone_layer(img, hp, layer) ==
    St(SetLayer(img, layer, unclone(LayerAt(img, layer))), hp)

image_select_parent_layer(img, hp, layer) ==
    St([img EXCEPT !.active_layer = img_get_layer(img, LayerAt(img, layer).base_id)],
       hp)

\* the DL_FOREACH of image_merge_visible_layers from the i-th layer on; st
\* holds the list and heap so far, last the accumulator layer or NULL
RECURSIVE merge_loop(_, _, _, _)
merge_loop(layers, i, st, last) ==
    IF i > Len(layers) THEN [st |-> st, last |-> last]
    ELSE IF ~LayerAt(st.img, layers[i].addr).visible
    THEN merge_loop(layers, i + 1, st, last)
    ELSE LET a == layers[i].addr
             s1 == image_unclone_layer(st.img, st.heap, a)
             s2 == IF last = NULL THEN s1
                   ELSE St([SetLayer(s1.img, a,
                                [LayerAt(s1.img, a) EXCEPT !.mesh =
                                    mesh_merge(@, LayerAt(s1.img, last).mesh)])
                              EXCEPT !.layers = DL_DELETE(@, last)],
                           [s1.heap EXCEPT !.layers = @ \ {last}])
         IN merge_loop(layers, i + 1, s2, a)

\* image_merge_visible_layers without its last line
image_merge_visible_layers_keep_active(img, hp) ==
    merge_loop(img.layers, 1, St(img, hp), NULL).st

image_merge_visible_layers(img, hp) ==
    LET r == merge_loop(img.layers, 1, St(img, hp), NULL)
    IN IF r.last # NULL
       THEN St([r.st.img EXCEPT !.active_layer = r.last], r.st.heap)
       ELSE r.st

\* ------------------------------------------------------------ image_update
\* the body of the DL_FOREACH of image_update for the layer at address a;
\* img_get_layer gives NULL for an id it does not find (a build with NDEBUG)
update_layer(img, a) ==
    LET layer == LayerAt(img, a)
        base == img_get_layer(img, layer.base_id)
        l1 == IF base # NULL
                 /\ layer.base_mesh_key # mesh_get_key(LayerAt(img, base).mesh)
              THEN [layer EXCEPT
                      !.mesh = mesh_move(mesh_set(@, LayerAt(img, base).mesh),
                                         layer.mat),
                      !.base_mesh_key = mesh_get_key(LayerAt(img, base).mesh)]
              ELSE layer
        l2 == IF l1.shape /\ shape_crc32(l1) # l1.shape_key
              THEN [l1 EXCEPT !.mesh = mesh_op(mesh_clear(@), l1.mat),
                              !.shape_key = shape_crc32(l1)]
              ELSE l1
    IN SetLayer(img, a, l2)

\* the DL_FOREACH of image_update from the i-th layer on
RECURSIVE update_loop(_, _)
update_loop(img, i) ==
    IF i > Len(img.layers) THEN img
    ELSE update_loop(update_layer(img, img.layers[i].addr), i + 1)

image_update(img, hp) == St(update_loop(img, 1), hp)

\* ------------------------------------ entity lifecycle (cameras, materials)
\* image_add_camera(img, NULL)
image_add_camera(img, hp) ==
    LET a == Alloc(hp.cameras)
        cam == camera_new(a, make_uniq_name("Camera", img, "camera_name_exists"))
    IN St([img EXCEPT !.cameras = DL_APPEND(@, cam), !.active_camera = a],
          [hp EXCEPT !.cameras = @ \cup {a}])

\* image_delete_camera without its test of the active camera
image_delete_camera_keep_active(img, hp, cam) ==
    St([img EXCEPT !.cameras = DL_DELETE(@, cam)],
       [hp EXCEPT !.cameras = @ \ {cam}])

\* image_delete_camera(img, cam), cam not NULL
image_delete_camera(img, hp, cam) ==
    LET l1 == DL_DELETE(img.cameras, cam)
    IN St([img EXCEPT !.cameras = l1,
                      !.active_camera =
                          IF cam = @
                          THEN (IF l1 = <<>> THEN NULL ELSE l1[1].addr)
                          ELSE @],
          [hp EXCEPT !.cameras = @ \ {cam}])

\* image_move_camera(img, cam, d), cam not NULL, d = -1 or +1
image_move_camera(img, hp, cam, d) ==
    LET i == Pos(img.cameras, cam)
        n == Len(img.cameras)
    IN IF d = -1
       THEN IF i = n THEN St(img, hp)
            ELSE LET next == img.cameras[i + 1]
                 IN St([img EXCEPT !.cameras =
                          DL_PREPEND_ELEM(DL_DELETE(@, next.addr), cam, next)],
                       hp)
       ELSE IF i = 1 THEN St(img, hp)
            ELSE LET prev == img.cameras[i - 1]
                 IN St([img EXCEPT !.cameras =
                          DL_PREPEND_ELEM(DL_DELETE(@, cam), prev.addr,
                                          img.cameras[i])],
                       hp)

\* image_add_material(img, NULL)
image_add_material(img, hp) ==
    LET a == Alloc(hp.materials)
        mat == material_new(a, make_uniq_name("Material", img,
                                              "material_name_exists"))
    IN St([img EXCEPT !.materials = DL_APPEND(@, mat), !.active_material = a],
          [hp EXCEPT !.materials = @ \cup {a}])

\* image_delete_material without its loop over the layers
image_delete_material_keep_refs(img, hp, mat) ==
    St([img EXCEPT
          !.materials = DL_DELETE(@, mat),
          !.active_material = IF mat = @ THEN NULL ELSE @],
       [hp EXCEPT !.materials = @ \ {mat}])

\* image_delete_material(img, mat), mat not NULL
image_delete_material(img, hp, mat) ==
    St([img EXCEPT
          !.materials = DL_DELETE(@, mat),
          !.active_material = IF mat = @ THEN NULL ELSE @,
          !.layers = [i \in 1..Len(@) |->
                        IF @[i].material = mat THEN [@[i] EXCEPT !.material = NULL]
                        ELSE @[i]]],
       [hp EXCEPT !.materials = @ \ {mat}])

\* ----------------------------------------------------------- image_get_key
\* crc32(key, &k, sizeof(k)): the running checksum with one more value
\* folded in; the checksum is kept to 16 bits, so that the arithmetic stays
\* within the integers of the model checker
crc32(key, k) == (key * 31 + k + 1) % (2 ^ 16)

\* the content keys of the entities: what of a layer, a camera or a
\* material the model holds as content
layer_get_key(layer) ==
    crc32(crc32(mesh_get_key(layer.mesh), IF layer.visible THEN 1 ELSE 0),
          layer.mat)

camera_get_key(camera) == 1

material_get_hash(material) == 1

\* key after the entities of list from the i-th on are folded in, f naming
\* the function that gives an entity's key
RECURSIVE fold_keys(_, _, _, _)
fold_keys(list, i, key, f) ==
    IF i > Len(list) THEN key
    ELSE fold_keys(list, i + 1,
                   crc32(key, CASE f = "layer_get_key" -> layer_get_key(list[i])
                                [] f = "camera_get_key" -> camera_get_key(list[i])
                                [] f = "material_get_hash" ->
                                       material_get_hash(list[i])),
                   f)

image_get_key(img) ==
    fold_keys(img.materials, 1,
              fold_keys(img.cameras, 1,
                        fold_keys(img.layers, 1, 0, "layer_get_key"),
                        "camera_get_key"),
              "material_get_hash")

\* --------------------------------------------------------------- image_new
\* image_new without its last assignment
image_new_no_saved_key ==
    LET s1 == image_add_material(EmptyImage, EmptyHeap)
        s2 == image_add_camera(s1.img, s1.heap)
        s3 == image_add_layer(s2.img, s2.heap)
        a == s3.img.active_layer
        layer == [LayerAt(s3.img, a) EXCEPT !.visible = TRUE,
                                            !.id = img_get_new_id(s3.img),
                                            !.material = s3.img.active_material]
    IN St([s3.img EXCEPT !.layers = DL_APPEND(@, layer), !.active_layer = a],
          s3.heap)

image_new ==
    LET s1 == image_add_material(EmptyImage, EmptyHeap)
        s2 == image_add_camera(s1.img, s1.heap)
        s3 == image_add_layer(s2.img, s2.heap)
        a == s3.img.active_layer
        layer == [LayerAt(s3.img, a) EXCEPT !.visible = TRUE,
                                            !.id = img_get_new_id(s3.img),
                                            !.material = s3.img.active_material]
        img == [s3.img EXCEPT !.layers = DL_APPEND(@, layer), !.active_layer = a]
    IN St([img EXCEPT !.saved_key = image_get_key(img)], s3.heap)

\* ----------------------------------------------------------------- history
\* the three DL_FOREACH loops of image_snap, from the i-th element on; st.img
\* is the snapshot so far
RECURSIVE snap_layers(_, _, _)
snap_layers(other, i, st) ==
    IF i > Len(other.layers) THEN st
    ELSE LET a == Alloc(st.heap.layers)
             layer == layer_copy(a, other.layers[i])
         IN snap_layers(other, i + 1,
                St([st.img EXCEPT
                      !.layers = DL_APPEND(@, layer),
                      !.active_layer =
                          IF other.layers[i].addr = other.active_layer THEN a
                          ELSE @],
                   [st.heap EXCEPT !.layers = @ \cup {a}]))

\* the cameras loop of image_snap with the active camera taken from other
\* as it is
RECURSIVE snap_cameras_no_remap(_, _, _)
snap_cameras_no_remap(other, i, st) ==
    IF i > Len(other.cameras) THEN st
    ELSE LET a == Alloc(st.heap.cameras)
             camera == [other.cameras[i] EXCEPT !.addr = a]
         IN snap_cameras_no_remap(other, i + 1,
                St([st.img EXCEPT
                      !.cameras = DL_APPEND(@, camera),
                      !.active_camera = other.active_camera],
                   [st.heap EXCEPT !.cameras = @ \cup {a}]))

RECURSIVE snap_cameras(_, _, _)
snap_cameras(other, i, st) ==
    IF i > Len(other.cameras) THEN st
    ELSE LET a == Alloc(st.heap.cameras)
             camera == [other.cameras[i] EXCEPT !.addr = a]
         IN snap_cameras(other, i + 1,
                St([st.img EXCEPT
                      !.cameras = DL_APPEND(@, camera),
                      !.active_camera =
                          IF other.cameras[i].addr = other.active_camera THEN a
                          ELSE @],
                   [st.heap EXCEPT !.cameras = @ \cup {a}]))

\* image_snap without the loop that points the copied layers at the copied
\* materials
RECURSIVE snap_materials_no_remap(_, _, _)
snap_materials_no_remap(other, i, st) ==
    IF i > Len(other.materials) THEN st
    ELSE LET a == Alloc(st.heap.materials)
             om == other.materials[i].addr
             material == [other.materials[i] EXCEPT !.addr = a]
         IN snap_materials_no_remap(other, i + 1,
                St([st.img EXCEPT
                      !.materials = DL_APPEND(@, material),
                      !.active_material =
                          IF om = other.active_material THEN a ELSE @],
                   [st.heap EXCEPT !.materials = @ \cup {a}]))

RECURSIVE snap_materials(_, _, _)
snap_materials(other, i, st) ==
    IF i > Len(other.materials) THEN st
    ELSE LET a == Alloc(st.heap.materials)
             om == other.materials[i].addr
             material == [other.materials[i] EXCEPT !.addr = a]
         IN snap_materials(other, i + 1,
                St([st.img EXCEPT
                      !.materials = DL_APPEND(@, material),
                      !.active_material =
                          IF om = other.active_material THEN a ELSE @,
                      !.layers = [k \in 1..Len(@) |->
                                    IF @[k].material = om
                                    THEN [@[k] EXCEPT !.material = a]
                                    ELSE @[k]]],
                   [st.heap EXCEPT !.materials = @ \cup {a}]))

\* image_snap(other): the copy and the heap after its allocations
image_snap(other, hp) ==
    LET s1 == snap_layers(other, 1,
                  St([other EXCEPT !.layers = <<>>, !.active_layer = NULL], hp))
        s2 == snap_cameras(other, 1,
                  St([s1.img EXCEPT !.cameras = <<>>, !.active_camera = NULL],
                     s1.heap))
    IN snap_materials(other, 1,
           St([s2.img EXCEPT !.materials = <<>>, !.active_material = NULL],
              s2.heap))

\* image_delete of a snapshot (its history is NULL): its entities are freed
image_delete(img, hp) ==
    [layers |-> hp.layers \ Addrs(img.layers),
     cameras |-> hp.cameras \ Addrs(img.cameras),
     materials |-> hp.materials \ Addrs(img.materials)]

\* swap(a, b): the contents change places, the links stay
swap(imgs, a, b) == [imgs EXCEPT ![a] = imgs[b], ![b] = imgs[a]]

Cur(chain) == CHOOSE i \in 1..Len(chain) : chain[i] = IMG

\* "if" where image_history_push has "while": one node is discarded
discard_redo_once(h) ==
    IF Cur(h.history) = Len(h.history) THEN h
    ELSE LET hist == h.history[Cur(h.history) + 1]
         IN [history |-> DL_DELETE2(h.history, hist),
             images |-> [n \in DOMAIN h.images \ {hist} |-> h.images[n]],
             heap |-> image_delete(h.images[hist], h.heap)]

\* the while loop of image_history_push: every node after img is unlinked
\* and deleted
RECURSIVE discard_redo(_)
discard_redo(h) ==
    IF Cur(h.history) = Len(h.history) THEN h
    ELSE LET hist == h.history[Cur(h.history) + 1]
         IN discard_redo([history |-> DL_DELETE2(h.history, hist),
                          images |-> [n \in DOMAIN h.images \ {hist} |-> h.images[n]],
                          heap |-> image_delete(h.images[hist], h.heap)])

\* image_history_push with its two DL_APPEND2 in the other order: the
\* snapshot ends up after the live document
image_history_push_snap_last(chain, imgs, hp) ==
    LET s == image_snap(imgs[IMG], hp)
        snap == Alloc({chain[i] : i \in 1..Len(chain)})
        h == discard_redo([history |-> chain, images |-> imgs, heap |-> s.heap])
    IN [history |-> DL_APPEND2(DL_APPEND2(DL_DELETE2(h.history, IMG), IMG), snap),
        images |-> [n \in DOMAIN h.images \cup {snap} |->
                      IF n = snap THEN s.img ELSE h.images[n]],
        heap |-> h.heap]

image_history_push(chain, imgs, hp) ==
    LET s == image_snap(imgs[IMG], hp)
        snap == Alloc({chain[i] : i \in 1..Len(chain)})
        h == discard_redo([history |-> chain, images |-> imgs, heap |-> s.heap])
    IN [history |-> DL_APPEND2(DL_APPEND2(DL_DELETE2(h.history, IMG), snap), IMG),
        images |-> [n \in DOMAIN h.images \cup {snap} |->
                      IF n = snap THEN s.img ELSE h.images[n]],
        heap |-> h.heap]

\* image_undo that looks for "no predecessor" where utlist has none: the
\* head's history_prev is the tail of the chain
image_undo_prev_of_head(chain, imgs) ==
    IF Len(chain) = 1 THEN [history |-> chain, images |-> imgs]
    ELSE LET prev == IF chain[1] = IMG THEN chain[Len(chain)]
                     ELSE chain[Cur(chain) - 1]
         IN [history |-> DL_PREPEND_ELEM2(DL_DELETE2(chain, IMG), prev, IMG),
             images |-> swap(imgs, IMG, prev)]

image_undo(chain, imgs) ==
    IF chain[1] = IMG THEN [history |-> chain, images |-> imgs]
    ELSE LET prev == chain[Cur(chain) - 1]
         IN [history |-> DL_PREPEND_ELEM2(DL_DELETE2(chain, IMG), prev, IMG),
             images |-> swap(imgs, IMG, prev)]

\* image_redo without its call of swap
image_redo_no_swap(chain, imgs) ==
    IF Cur(chain) = Len(chain) THEN [history |-> chain, images |-> imgs]
    ELSE LET next == chain[Cur(chain) + 1]
         IN [history |-> DL_PREPEND_ELEM2(DL_DELETE2(chain, next), IMG, next),
             images |-> imgs]

image_redo(chain, imgs) ==
    IF Cur(chain) = Len(chain) THEN [history |-> chain, images |-> imgs]
    ELSE LET next == chain[Cur(chain) + 1]
         IN [history |-> DL_PREPEND_ELEM2(DL_DELETE2(chain, next), IMG, next),
             images |-> swap(imgs, IMG, next)]

\* the for loop of image_history_resize, but on the node next to the live
\* document each time
RECURSIVE resize_loop_newest(_, _)
resize_loop_newest(h, nb) ==
    IF nb = 0 THEN h
    ELSE LET hist == h.history[Cur(h.history) - 1]
         IN resize_loop_newest(
                [history |-> DL_DELETE2(h.history, hist),
                 images |-> [n \in DOMAIN h.images \ {hist} |-> h.images[n]],
                 heap |-> [h.heap EXCEPT
                             !.layers = @ \ Addrs(h.images[hist].layers)]],
                nb - 1)

\* the for loop of image_history_resize with nb iterations to go: the head
\* of the chain loses its layers, is unlinked and freed; its cameras and
\* materials stay allocated
RECURSIVE resize_loop(_, _)
resize_loop(h, nb) ==
    IF nb = 0 THEN h
    ELSE LET hist == h.history[1]
         IN resize_loop(
                [history |-> DL_DELETE2(h.history, hist),
                 images |-> [n \in DOMAIN h.images \ {hist} |-> h.images[n]],
                 heap |-> [h.heap EXCEPT
                             !.layers = @ \ Addrs(h.images[hist].layers)]],
                nb - 1)

\* image_history_resize(img, size), size >= 0
image_history_resize(chain, imgs, hp, size) ==
    LET nb == Cur(chain) - 1
    IN resize_loop([history |-> chain, images |-> imgs, heap |-> hp],
                   IF nb - size > 0 THEN nb - size ELSE 0)

\* -------------------------------------------------------------- observation
\* What a user of the document can see of it: everything but the addresses;
\* a pointer is seen as the position of what it points to.
ObsLayer(img, layer) ==
    [id |-> layer.id, name |-> layer.name, visible |-> layer.visible,
     mesh |-> layer.mesh, base_id |-> layer.base_id,
     base_mesh_key |-> layer.base_mesh_key, shape |-> layer.shape,
     mat |-> layer.mat, shape_key |-> layer.shape_key,
     material |-> PosOrNull(img.materials, layer.material)]

ObsDoc(img) ==
    [layers |-> [i \in 1..Len(img.layers) |-> ObsLayer(img, img.layers[i])],
     active_layer |-> PosOrNull(img.layers, img.active_layer),
     cameras |-> [i \in 1..Len(img.cameras) |-> img.cameras[i].name],
     active_camera |-> PosOrNull(img.cameras, img.active_camera),
     materials |-> [i \in 1..Len(img.materials) |-> img.materials[i].name],
     active_material |-> PosOrNull(img.materials, img.active_material)]

\* ------------------------------------------------------------------ actions
Live == images[IMG]

\* the process is alive and the caller has operations left to call
Running == err = "none" /\ ops > 0

\* the layer an action gets: NULL (the callee takes the active layer) or a
\* layer of the live document
LayerArgs == {NULL} \cup Addrs(Live.layers)

CameraArgs == {NULL} \cup Addrs(Live.cameras)

MaterialArgs == {NULL} \cup Addrs(Live.materials)

\* layer = layer ?: img->active_layer
OrActive(layer) == IF layer = NULL THEN Live.active_layer ELSE layer

NoPush == [phase |-> "none", doc |-> <<>>, before |-> 0, discarded |-> 0]

NoUndo == [phase |-> "none", history |-> <<>>, images |-> <<>>]

\* pushed after an operation that is neither a push nor an undo
KeepPushed == IF pushed.phase = "pushed" THEN pushed ELSE NoPush

\* the operation returns with the live document and the heap as in st
Commit(st) ==
    /\ images' = [images EXCEPT ![IMG] = st.img]
    /\ heap' = st.heap
    /\ ops' = ops - 1
    /\ pushed' = KeepPushed
    /\ undone' = NoUndo
    /\ UNCHANGED <<history, err>>

\* the process ends: a failed assert aborts; a read or write through a NULL
\* layer_t pointer (the callee took img->active_layer, which was NULL) faults
Crash(how) ==
    /\ err' = how
    /\ ops' = ops - 1
    /\ UNCHANGED <<history, images, heap, pushed, undone>>

\* the state image_new returns, with n operations to come
New(n) ==
    /\ history = <<IMG>>
    /\ images = [i \in {IMG} |-> image_new.img]
    /\ heap = image_new.heap
    /\ err = "none"
    /\ pushed = NoPush
    /\ undone = NoUndo
    /\ ops = n

Init == New(MaxOps)

ImageAddLayer ==
    /\ Running
    /\ Len(Live.layers) < MaxLayers
    /\ Commit(image_add_layer(Live, heap))

ImageAddShapeLayer ==
    /\ Running
    /\ Len(Live.layers) < MaxLayers
    /\ Commit(image_add_shape_layer(Live, heap))

ImageDeleteLayer(layer) ==
    /\ Running
    /\ IF OrActive(layer) = NULL THEN Crash("segv")
       ELSE Commit(image_delete_layer(Live, heap, OrActive(layer)))

ImageMoveLayer(layer, d) ==
    /\ Running
    /\ IF OrActive(layer) = NULL THEN Crash("segv")
       ELSE Commit(image_move_layer(Live, heap, OrActive(layer), d))

ImageDuplicateLayer(layer) ==
    /\ Running
    /\ Len(Live.layers) < MaxLayers
    /\ IF OrActive(layer) = NULL THEN Crash("segv")
       ELSE Commit(image_duplicate_layer(Live, heap, OrActive(layer)))

ImageCloneLayer(layer) ==
    /\ Running
    /\ Len(Live.layers) < MaxLayers
    /\ IF OrActive(layer) = NULL THEN Crash("segv")
       ELSE Commit(image_clone_layer(Live, heap, OrActive(layer)))

ImageUncloneLayer(layer) ==
    /\ Running
    /\ IF OrActive(layer) = NULL THEN Crash("segv")
       ELSE Commit(image_unclone_layer(Live, heap, OrActive(layer)))

ImageSelectParentLayer(layer) ==
    /\ Running
    /\ IF OrActive(layer) = NULL THEN Crash("segv")
       ELSE \/ /\ img_get_layer_fails(Live, LayerAt(Live, OrActive(layer)).base_id)
               /\ Crash("assert")
            \/ Commit(image_select_parent_layer(Live, heap, OrActive(layer)))

ImageMergeVisibleLayers ==
    /\ Running
    /\ Commit(image_merge_visible_layers(Live, heap))

ImageAddCamera ==
    /\ Running
    /\ Len(Live.cameras) < MaxCameras
    /\ Commit(image_add_camera(Live, heap))

ImageDeleteCamera(cam) ==
    /\ Running
    /\ LET c == IF cam = NULL THEN Live.active_camera ELSE cam
       IN IF c = NULL THEN Commit(St(Live, heap))
          ELSE Commit(image_delete_camera(Live, heap, c))

ImageMoveCamera(cam, d) ==
    /\ Running
    /\ LET c == IF cam = NULL THEN Live.active_camera ELSE cam
       IN IF c = NULL THEN Commit(St(Live, heap))
          ELSE Commit(image_move_camera(Live, heap, c, d))

ImageAddMaterial ==
    /\ Running
    /\ Len(Live.materials) < MaxMaterials
    /\ Commit(image_add_material(Live, heap))

ImageDeleteMaterial(mat) ==
    /\ Running
    /\ LET m == IF mat = NULL THEN Live.active_material ELSE mat
       IN IF m = NULL THEN Commit(St(Live, heap))
          ELSE Commit(image_delete_material(Live, heap, m))

\* the GUI's visibility checkbox writes layer->visible
SetVisible(layer) ==
    /\ Running
    /\ Commit(St(SetLayer(Live, layer,
                   [LayerAt(Live, layer) EXCEPT !.visible = ~@]), heap))

\* image_layer_can_edit(img, layer); no layer of the model has an image
image_layer_can_edit(img, layer) == layer.base_id = 0 /\ ~layer.shape

\* a tool paints voxel v into the active layer's mesh; the tools ask
\* image_layer_can_edit first
Paint(v) ==
    /\ Running
    /\ Live.active_layer # NULL
    /\ image_layer_can_edit(Live, LayerAt(Live, Live.active_layer))
    /\ Commit(St(SetLayer(Live, Live.active_layer,
                   [LayerAt(Live, Live.active_layer) EXCEPT !.mesh = @ \cup {v}]),
                 heap))

\* image_clear_layer(NULL, NULL)
ImageClearLayer ==
    /\ Running
    /\ IF Live.active_layer = NULL THEN Crash("segv")
       ELSE Commit(St(SetLayer(Live, Live.active_layer,
                        [LayerAt(Live, Live.active_layer) EXCEPT !.mesh = {}]),
                      heap))

\* image_update(goxel.image), called before the document is read
ImageUpdate ==
    /\ Running
    /\ \/ /\ \E i \in 1..Len(Live.layers) :
                img_get_layer_fails(Live, Live.layers[i].base_id)
          /\ Crash("assert")
       \/ Commit(image_update(Live, heap))

\* the move tool on a clone: it writes the layer's matrix and zeroes
\* base_mesh_key, so that image_update moves the mesh
SetMat(layer, m) ==
    /\ Running
    /\ LayerAt(Live, layer).base_id # 0
    /\ LayerAt(Live, layer).mat # m
    /\ Commit(St(SetLayer(Live, layer,
                   [LayerAt(Live, layer) EXCEPT !.mat = m,
                                                !.base_mesh_key = 0]), heap))

ImageHistoryPush ==
    /\ Running
    /\ Cur(history) < MaxHistory
    /\ \/ /\ image_snap(Live, heap).img.active_layer = NULL
          /\ Crash("assert")
       \/ LET h == image_history_push(history, images, heap)
          IN /\ history' = h.history
             /\ images' = h.images
             /\ heap' = h.heap
             /\ pushed' = [phase |-> "pushed", doc |-> ObsDoc(Live),
                           before |-> Cur(history) - 1,
                           discarded |-> Len(history) - Cur(history)]
             /\ undone' = NoUndo
             /\ ops' = ops - 1
             /\ UNCHANGED <<err>>

ImageUndo ==
    /\ Running
    /\ LET h == image_undo(history, images)
       IN /\ history' = h.history
          /\ images' = h.images
          /\ pushed' = IF pushed.phase = "pushed" /\ Cur(history) > 1
                       THEN [pushed EXCEPT !.phase = "undone"]
                       ELSE NoPush
          /\ undone' = IF Cur(history) > 1
                       THEN [phase |-> "undone", history |-> history,
                             images |-> images]
                       ELSE NoUndo
          /\ ops' = ops - 1
          /\ UNCHANGED <<heap, err>>

ImageRedo ==
    /\ Running
    /\ LET h == image_redo(history, images)
       IN /\ history' = h.history
          /\ images' = h.images
          /\ pushed' = KeepPushed
          /\ undone' = IF undone.phase = "undone"
                       THEN [undone EXCEPT !.phase = "redone"]
                       ELSE NoUndo
          /\ ops' = ops - 1
          /\ UNCHANGED <<heap, err>>

\* image_history_resize(goxel.image, size)
ImageHistoryResize(size) ==
    /\ Running
    /\ LET h == image_history_resize(history, images, heap, size)
       IN /\ history' = h.history
          /\ images' = h.images
          /\ heap' = h.heap
          /\ pushed' = NoPush
          /\ undone' = NoUndo
          /\ ops' = ops - 1
          /\ UNCHANGED <<err>>

Next ==
    \/ ImageAddLayer
    \/ ImageAddShapeLayer
    \/ \E layer \in LayerArgs : ImageDeleteLayer(layer)
    \/ \E layer \in LayerArgs, d \in {-1, 1} : ImageMoveLayer(layer, d)
    \/ \E layer \in LayerArgs : ImageDuplicateLayer(layer)
    \/ \E layer \in LayerArgs : ImageCloneLayer(layer)
    \/ \E layer \in LayerArgs : ImageUncloneLayer(layer)
    \/ \E layer \in LayerArgs : ImageSelectParentLayer(layer)
    \/ ImageMergeVisibleLayers
    \/ ImageAddCamera
    \/ \E cam \in CameraArgs : ImageDeleteCamera(cam)
    \/ ImageAddMaterial
    \/ \E mat \in MaterialArgs : ImageDeleteMaterial(mat)
    \/ \E layer \in Addrs(Live.layers) : SetVisible(layer)
    \/ \E v \in Voxels : Paint(v)
    \/ ImageClearLayer
    \/ ImageHistoryPush
    \/ ImageUndo
    \/ ImageRedo
    \/ \E cam \in CameraArgs, d \in {-1, 1} : ImageMoveCamera(cam, d)
    \/ \E layer \in Addrs(Live.layers), m \in 0..MaxShift : SetMat(layer, m)
    \/ ImageUpdate
    \/ \E size \in 0..MaxHistory : ImageHistoryResize(size)

Spec == Init /\ [][Next]_vars

\* the layer operations and the history operations
InitLayers == New(MaxLayerOps)

NextLayers ==
    \/ ImageAddLayer
    \/ ImageAddShapeLayer
    \/ \E layer \in LayerArgs : ImageDeleteLayer(layer)
    \/ \E layer \in LayerArgs, d \in {-1, 1} : ImageMoveLayer(layer, d)
    \/ \E layer \in LayerArgs : ImageDuplicateLayer(layer)
    \/ \E layer \in LayerArgs : ImageCloneLayer(layer)
    \/ \E layer \in LayerArgs : ImageUncloneLayer(layer)
    \/ \E layer \in LayerArgs : ImageSelectParentLayer(layer)
    \/ ImageMergeVisibleLayers
    \/ \E layer \in Addrs(Live.layers) : SetVisible(layer)
    \/ ImageHistoryPush
    \/ ImageUndo
    \/ ImageRedo

SpecLayers == InitLayers /\ [][NextLayers]_vars

\* the history operations, with a few mutations that tell documents apart
InitHistory == New(MaxHistoryOps)

NextHistory ==
    \/ ImageAddLayer
    \/ ImageDeleteLayer(NULL)
    \/ ImageAddCamera
    \/ ImageDeleteMaterial(NULL)
    \/ ImageHistoryPush
    \/ ImageUndo
    \/ ImageRedo

SpecHistory == InitHistory /\ [][NextHistory]_vars

\* the operations that create an entity, and the one that deletes layers
NextCreate ==
    \/ ImageAddLayer
    \/ ImageAddShapeLayer
    \/ \E layer \in LayerArgs : ImageCloneLayer(layer)
    \/ \E layer \in LayerArgs : ImageDeleteLayer(layer)
    \/ ImageAddCamera
    \/ ImageAddMaterial

SpecCreate == Init /\ [][NextCreate]_vars

\* the clone operations, the tools that change a mesh or a matrix, and
\* image_update
InitUpdate == New(MaxUpdateOps)

NextUpdate ==
    \/ ImageAddShapeLayer
    \/ \E layer \in LayerArgs : ImageCloneLayer(layer)
    \/ \E layer \in Addrs(Live.layers) : ImageMoveLayer(layer, 1)
    \/ \E layer \in LayerArgs : ImageSelectParentLayer(layer)
    \/ \E v \in Voxels : Paint(v)
    \/ \E layer \in Addrs(Live.layers), m \in 0..MaxShift : SetMat(layer, m)
    \/ ImageUpdate

SpecUpdate == InitUpdate /\ [][NextUpdate]_vars

\* the history operations with image_history_resize, and two mutations
InitTrim == New(MaxTrimOps)

NextTrim ==
    \/ ImageAddLayer
    \/ ImageAddCamera
    \/ ImageHistoryPush
    \/ ImageUndo
    \/ ImageRedo
    \/ \E size \in 0..MaxHistory : ImageHistoryResize(size)

SpecTrim == InitTrim /\ [][NextTrim]_vars

\* layers added, cloned, deleted and moved
InitMove == New(MaxMoveOps)

NextMove ==
    \/ ImageAddLayer
    \/ \E layer \in LayerArgs : ImageCloneLayer(layer)
    \/ \E layer \in LayerArgs : ImageDeleteLayer(layer)
    \/ \E layer \in LayerArgs, d \in {-1, 1} : ImageMoveLayer(layer, d)

SpecMove == InitMove /\ [][NextMove]_vars

\* materials added and deleted, layers added and cloned, and the history
InitMaterial == New(MaxMaterialOps)

NextMaterial ==
    \/ ImageAddLayer
    \/ \E layer \in LayerArgs : ImageCloneLayer(layer)
    \/ ImageAddMaterial
    \/ \E mat \in MaterialArgs : ImageDeleteMaterial(mat)
    \/ ImageHistoryPush
    \/ ImageUndo
    \/ ImageRedo

SpecMaterial == InitMaterial /\ [][NextMaterial]_vars

\* cameras added, deleted and moved, and the history
InitCamera == New(MaxCameraOps)

NextCamera ==
    \/ ImageAddCamera
    \/ \E cam \in CameraArgs : ImageDeleteCamera(cam)
    \/ \E cam \in CameraArgs, d \in {-1, 1} : ImageMoveCamera(cam, d)
    \/ ImageHistoryPush
    \/ ImageUndo
    \/ ImageRedo

SpecCamera == InitCamera /\ [][NextCamera]_vars

\* layers added, cloned, deleted and merged, with the visibility flag set
\* freely, and the history
InitClone == New(MaxCloneOps)

NextClone ==
    \/ ImageAddLayer
    \/ \E layer \in LayerArgs : ImageCloneLayer(layer)
    \/ \E layer \in LayerArgs : ImageDeleteLayer(layer)
    \/ ImageMergeVisibleLayers
    \/ \E layer \in Addrs(Live.layers) : SetVisible(layer)
    \/ ImageHistoryPush
    \/ ImageUndo
    \/ ImageRedo

SpecClone == InitClone /\ [][NextClone]_vars

\* ==================================================================== claims
Nodes == {history[i] : i \in 1..Len(history)}

\* C1: a push in document state S, then any mutations of the live document,
\* then one undo, leave the live document observably equal to S: the same
\* layers (ids, names, content), cameras and materials in the same order, and
\* the same active layer, camera and material by position.
C1_UndoRestoresPushedDocument ==
    pushed.phase = "undone" => ObsDoc(Live) = pushed.doc

\* a push, at least one mutation that changed the document, and the undo
C1_Witness ==
    /\ pushed.phase = "undone"
    /\ Cur(history) < Len(history)
    /\ ObsDoc(images[history[Cur(history) + 1]]) # pushed.doc

\* C2: an undo that finds a predecessor, followed at once by a redo, gives
\* back the chain and every image as they were before the undo: the live
\* document with the same entities in the same order and the same active
\* pointers, and as many nodes before and after it.
C2_RedoAfterUndoRestores ==
    undone.phase = "redone" =>
        /\ images[IMG] = undone.images[IMG]
        /\ Cur(history) = Cur(undone.history)
        /\ Len(history) = Len(undone.history)
        /\ history = undone.history
        /\ images = undone.images

\* the undo replaced the live document by a different one, and the redo ran
C2_Witness ==
    /\ undone.phase = "redone"
    /\ Cur(history) > 1
    /\ ObsDoc(Live) # ObsDoc(images[history[Cur(history) - 1]])

\* C3: a push removes every node after the live document: the chain is then
\* the nodes that were before it, the new snapshot and the live document,
\* which is last; and for as long as no undo has run since, redo changes
\* nothing.
C3_PushPrunesRedo ==
    pushed.phase = "pushed" =>
        /\ Len(history) = pushed.before + 2
        /\ Cur(history) = Len(history)
        /\ DOMAIN images = Nodes
        /\ image_redo(history, images) = [history |-> history, images |-> images]

\* a push that came after undos and discarded their redo nodes
C3_Witness == pushed.phase = "pushed" /\ pushed.discarded > 1

\* C4: in the live document and in every snapshot of the chain, the layers
\* have pairwise distinct ids and every id is positive.
C4_LayerIdsUniquePositive ==
    \A n \in DOMAIN images :
        \A i, j \in 1..Len(images[n].layers) :
            /\ images[n].layers[i].id > 0
            /\ (i # j => images[n].layers[i].id # images[n].layers[j].id)

\* a snapshot with several layers beside a live document with several
\* layers, one of them a clone
C4_Witness ==
    /\ \E n \in DOMAIN images : n # IMG /\ Len(images[n].layers) >= 2
    /\ \E i \in 1..Len(Live.layers) : Live.layers[i].base_id # 0
    /\ Len(Live.layers) >= 2

\* C5: the layer list of the live document is never empty; deleting the only
\* layer leaves exactly one layer, the placeholder, with a positive id, a
\* name, and active.
C5_LayersNeverEmpty ==
    /\ [](Len(Live.layers) >= 1)
    /\ [][\A layer \in LayerArgs :
            (Len(Live.layers) = 1 /\ ImageDeleteLayer(layer) /\ err' = "none") =>
                /\ Len(images'[IMG].layers) = 1
                /\ images'[IMG].layers[1].id > 0
                /\ images'[IMG].layers[1].name # NoName
                /\ images'[IMG].active_layer = images'[IMG].layers[1].addr]_vars

\* the placeholder, alone in the list after every layer was deleted
C5_Witness ==
    /\ Len(Live.layers) = 1
    /\ Live.layers[1].name = Name("unnamed", 0, 0)
    /\ Live.active_layer = Live.layers[1].addr

\* C6: the active layer of the live document is never NULL and is always a
\* layer of its list (so that the assert of image_snap holds at every push).
C6_ActiveLayerInList ==
    Live.active_layer # NULL /\ InList(Live.layers, Live.active_layer)

\* C7: every non-zero base_id in the live document is the id of a layer of
\* the list (so that img_get_layer finds it).
C7_BaseIdsResolve ==
    \A i \in 1..Len(Live.layers) :
        ~img_get_layer_fails(Live, Live.layers[i].base_id)

\* C8: no two layers, no two cameras and no two materials of the live
\* document have names that are equal ignoring case.
C8_NamesUnique ==
    /\ \A i, j \in 1..Len(Live.layers) :
          i # j => ~strcasecmp_eq(Live.layers[i].name, Live.layers[j].name)
    /\ \A i, j \in 1..Len(Live.cameras) :
          i # j => ~strcasecmp_eq(Live.cameras[i].name, Live.cameras[j].name)
    /\ \A i, j \in 1..Len(Live.materials) :
          i # j => ~strcasecmp_eq(Live.materials[i].name, Live.materials[j].name)

\* C9: while the live document has materials, its active material is not
\* NULL and is one of them.
C9_ActiveMaterialInList ==
    Live.materials # <<>> =>
        Live.active_material # NULL /\ InList(Live.materials, Live.active_material)

VisibleAt(img) == {i \in 1..Len(img.layers) : img.layers[i].visible}

Max(S) == CHOOSE x \in S : \A y \in S : y <= x

\* what C10 says of a merge that takes the document old to the document new
MergedAsClaimed(old, new) ==
    IF VisibleAt(old) = {}
    THEN new.layers = old.layers /\ new.active_layer = old.active_layer
    ELSE LET last == old.layers[Max(VisibleAt(old))]
             kept == SelectSeq(old.layers,
                               LAMBDA l : ~l.visible \/ l.addr = last.addr)
         IN /\ Len(new.layers) = Len(kept)
            /\ \A k \in 1..Len(kept) :
                  IF kept[k].addr = last.addr
                  THEN /\ new.layers[k].addr = last.addr
                       /\ new.layers[k].id = last.id
                       /\ new.layers[k].name = last.name
                       /\ new.layers[k].base_id = 0
                       /\ new.layers[k].shape = FALSE
                  ELSE new.layers[k] = kept[k]
            /\ new.active_layer = last.addr

\* C10: image_merge_visible_layers keeps, of the visible layers, the last
\* one in list order, in its place among the invisible layers, with base_id
\* 0 and no shape, and makes it the active layer; it removes the other
\* visible layers and leaves every invisible layer as it was; with no
\* visible layer it changes neither the list nor the active layer.
C10_MergeKeepsLastVisible ==
    [][ImageMergeVisibleLayers => MergedAsClaimed(Live, images'[IMG])]_vars

\* a document with two visible layers around an invisible one, the active
\* layer not the last visible one, from which the merge runs and removes a
\* layer
C10_Witness ==
    /\ \E i, j, k \in 1..Len(Live.layers) :
          /\ i < j /\ j < k
          /\ Live.layers[i].visible
          /\ ~Live.layers[j].visible
          /\ Live.layers[k].visible
          /\ Live.active_layer # Live.layers[k].addr
    /\ ENABLED (ImageMergeVisibleLayers
                /\ Len(images'[IMG].layers) < Len(images[IMG].layers))

\* the keys and meshes image_update works on
MeshAndKeys(img) == [i \in 1..Len(img.layers) |->
                  [mesh |-> img.layers[i].mesh,
                   base_mesh_key |-> img.layers[i].base_mesh_key,
                   shape_key |-> img.layers[i].shape_key]]

\* C11: a second image_update, with nothing changed since the first, changes
\* no layer's mesh, base_mesh_key or shape_key: the document image_update
\* returns is one that image_update leaves as it is, also with a clone of a
\* clone and with clones that image_move_layer put before their source.
C11_UpdateIdempotent ==
    [][(ImageUpdate /\ err' = "none") =>
          MeshAndKeys(image_update(images'[IMG], heap').img) = MeshAndKeys(images'[IMG])]_vars

\* the layer at address a has the mesh and the key of its source, if it has one
Follows(img, a) ==
    LET layer == LayerAt(img, a)
        base == img_get_layer(img, layer.base_id)
    IN layer.base_id # 0 =>
          /\ base # NULL
          /\ layer.mesh = mesh_move(LayerAt(img, base).mesh, layer.mat)
          /\ layer.base_mesh_key = mesh_get_key(LayerAt(img, base).mesh)

\* the mesh of some layer's source is no longer the one its key was taken of
SourceChanged(img) ==
    \E i \in 1..Len(img.layers) :
        LET base == img_get_layer(img, img.layers[i].base_id)
        IN /\ base # NULL
           /\ img.layers[i].base_mesh_key # mesh_get_key(LayerAt(img, base).mesh)

\* C12: when the mesh of a clone source has changed, one image_update leaves
\* every layer that has a base_id with the mesh of the layer of that id,
\* moved by its own matrix, and with that mesh's key as base_mesh_key,
\* wherever the two layers are in the list.
C12_UpdateSyncsClones ==
    [][(SourceChanged(Live) /\ ImageUpdate /\ err' = "none") =>
          \A a \in Addrs(images'[IMG].layers) : Follows(images'[IMG], a)]_vars

\* C13: image_undo with the live document at the head of the chain, and
\* image_redo with the live document at its tail, leave the chain, every
\* image (the live document's lists and active pointers among them) and the
\* heap as they were, and the process alive.
C13_BoundaryNoOps ==
    [][/\ (ImageUndo /\ history[1] = IMG) =>
             UNCHANGED <<history, images, heap, err>>
       /\ (ImageRedo /\ history[Len(history)] = IMG) =>
             UNCHANGED <<history, images, heap, err>>]_vars

\* the live document at the head of a chain that has redo nodes, and
\* image_undo called there
C13_Witness ==
    /\ history[1] = IMG
    /\ Len(history) > 1
    /\ ObsDoc(images[history[Len(history)]]) # ObsDoc(Live)
    /\ ENABLED (ImageUndo /\ history' = history)

\* C14: image_history_resize(img, size), size >= 0, with n nodes before
\* the live document, leaves min(n, size) nodes before it: the chain loses
\* its n - min(n, size) first nodes and nothing else, and every node that
\* stays (the live document, the nodes after it and the later ones before
\* it) keeps its place after the others and its content.
C14_ResizeDropsOldest ==
    [][\A size \in 0..MaxHistory :
          ImageHistoryResize(size) =>
              LET n == Cur(history) - 1
                  k == Min({n, size})
              IN /\ Cur(history') - 1 = k
                 /\ history' = SubSeq(history, n - k + 1, Len(history))
                 /\ DOMAIN images' = {history'[i] : i \in 1..Len(history')}
                 /\ \A node \in DOMAIN images' : images'[node] = images[node]]_vars

\* two snapshots before the live document, which differ, and a resize to
\* one that removes a node
C14_Witness ==
    /\ Cur(history) = 3
    /\ ObsDoc(images[history[1]]) # ObsDoc(images[history[2]])
    /\ ENABLED (ImageHistoryResize(1) /\ Len(history') = Len(history) - 1)

\* C15: image_select_parent_layer on a layer whose base_id is 0 leaves the
\* document, and so the active layer, as it was; on a layer whose base_id
\* is the id of a layer of the list it makes that layer the active one and
\* changes nothing else.
C15_SelectParent ==
    [][\A layer \in LayerArgs :
          (OrActive(layer) # NULL /\ ImageSelectParentLayer(layer)
              /\ err' = "none") =>
             LET base_id == LayerAt(Live, OrActive(layer)).base_id
             IN IF base_id = 0
                THEN images'[IMG] = images[IMG]
                ELSE ~img_get_layer_fails(Live, base_id) =>
                        images'[IMG] =
                            [Live EXCEPT !.active_layer = img_get_layer(Live, base_id)]]_vars

\* the list with the elements at i and j in each other's place
Exchanged(list, i, j) ==
    [k \in 1..Len(list) |->
        IF k = i THEN list[j] ELSE IF k = j THEN list[i] ELSE list[k]]

\* C16: image_move_layer(img, layer, d) puts the layer in the place of its
\* neighbour, the one before it for d = +1 and the one after it for d = -1,
\* and the neighbour in its place; every other layer keeps its place, every
\* layer its fields, and the active layer stays; with no such neighbour the
\* document is unchanged.  And +1 then -1 on a layer that is not the first
\* gives the list back.
C16_MoveExchangesNeighbours ==
    /\ [](\A a \in Addrs(Live.layers) :
            a # Live.layers[1].addr =>
                image_move_layer(image_move_layer(Live, heap, a, 1).img,
                                 heap, a, -1).img = Live)
    /\ [][\A layer \in LayerArgs, d \in {-1, 1} :
            (OrActive(layer) # NULL /\ ImageMoveLayer(layer, d)
                /\ err' = "none") =>
               LET i == Pos(Live.layers, OrActive(layer))
                   j == IF d = 1 THEN i - 1 ELSE i + 1
               IN IF j < 1 \/ j > Len(Live.layers)
                  THEN images'[IMG] = images[IMG]
                  ELSE images'[IMG] =
                          [Live EXCEPT !.layers = Exchanged(@, i, j)]]_vars

\* three layers, the active one last, and the first of them moved toward
\* the tail
C16_Witness ==
    /\ Len(Live.layers) = 3
    /\ Live.active_layer = Live.layers[3].addr
    /\ ENABLED (ImageMoveLayer(Live.layers[1].addr, -1)
                /\ images'[IMG].layers[2] = images[IMG].layers[1])

\* C17: image_delete_material takes the given material, and no other, out
\* of the material list, makes NULL the material of every layer that had
\* it, and leaves the layer list and every other field of every layer as
\* they were; and in every state the material of a layer is NULL or a
\* material of the list of the document the layer is in.
C17_DeleteMaterialClearsRefs ==
    /\ [](\A n \in DOMAIN images : \A i \in 1..Len(images[n].layers) :
            \/ images[n].layers[i].material = NULL
            \/ InList(images[n].materials, images[n].layers[i].material))
    /\ [][\A mat \in MaterialArgs :
            LET m == IF mat = NULL THEN Live.active_material ELSE mat
            IN (m # NULL /\ ImageDeleteMaterial(mat)) =>
                 /\ images'[IMG].materials =
                        SelectSeq(Live.materials, LAMBDA e : e.addr # m)
                 /\ Len(images'[IMG].materials) = Len(Live.materials) - 1
                 /\ Len(images'[IMG].layers) = Len(Live.layers)
                 /\ \A i \in 1..Len(Live.layers) :
                        images'[IMG].layers[i] =
                            IF Live.layers[i].material = m
                            THEN [Live.layers[i] EXCEPT !.material = NULL]
                            ELSE Live.layers[i]
                 /\ images'[IMG].active_layer = Live.active_layer]_vars

\* a layer that lost its material to image_delete_material beside a layer
\* that kept its own
C17_Witness ==
    /\ Len(Live.materials) >= 1
    /\ \E i, j \in 1..Len(Live.layers) :
          /\ Live.layers[i].material = NULL
          /\ Live.layers[j].material # NULL
          /\ Live.layers[i].id < Live.layers[j].id
    /\ \E n \in DOMAIN images : n # IMG /\ images[n].layers[1].material # NULL

\* C18: image_delete_camera of the active camera makes the first camera of
\* what is left the active one, or NULL when nothing is left; of another
\* camera, it leaves the active camera alone; and in every state a live
\* document that has cameras has one of them as its active camera.
C18_ActiveCameraInList ==
    /\ [](Live.cameras # <<>> =>
            /\ Live.active_camera # NULL
            /\ InList(Live.cameras, Live.active_camera))
    /\ [][\A cam \in CameraArgs :
            LET c == IF cam = NULL THEN Live.active_camera ELSE cam
            IN (c # NULL /\ ImageDeleteCamera(cam)) =>
                 /\ images'[IMG].cameras =
                        SelectSeq(Live.cameras, LAMBDA e : e.addr # c)
                 /\ images'[IMG].active_camera =
                        IF c # Live.active_camera THEN Live.active_camera
                        ELSE IF images'[IMG].cameras = <<>> THEN NULL
                        ELSE images'[IMG].cameras[1].addr]_vars

\* two cameras, the second one active, and image_delete_camera of it
C18_Witness ==
    /\ Len(Live.cameras) = 2
    /\ Live.active_camera = Live.cameras[2].addr
    /\ ENABLED (ImageDeleteCamera(NULL)
                /\ images'[IMG].active_camera = images[IMG].cameras[1].addr)

\* every pointer of the image_t at node n is NULL or points into n's lists
OwnPointers(n) ==
    LET img == images[n]
    IN /\ img.active_layer \in {NULL} \cup Addrs(img.layers)
       /\ img.active_camera \in {NULL} \cup Addrs(img.cameras)
       /\ img.active_material \in {NULL} \cup Addrs(img.materials)
       /\ \A i \in 1..Len(img.layers) :
             img.layers[i].material \in {NULL} \cup Addrs(img.materials)

\* C19: no layer, camera or material is in the lists of two nodes of the
\* chain; in every node the active layer, camera and material and every
\* layer's material are NULL or in that node's lists; in the snapshot a push
\* makes, two layers have the same material exactly when the layers they
\* were copied from had; and an operation on the live document that leaves
\* the chain alone changes no snapshot.
C19_NoSharingBetweenNodes ==
    /\ [](/\ DOMAIN images = Nodes
          /\ \A n, m \in Nodes :
                n # m =>
                   /\ Addrs(images[n].layers) \cap Addrs(images[m].layers) = {}
                   /\ Addrs(images[n].cameras) \cap Addrs(images[m].cameras) = {}
                   /\ Addrs(images[n].materials) \cap Addrs(images[m].materials) = {}
          /\ \A n \in Nodes : OwnPointers(n))
    /\ [][(history' # history /\ err' = "none" /\ ImageHistoryPush) =>
            LET snap == images'[history'[Len(history') - 1]]
            IN /\ Len(snap.layers) = Len(Live.layers)
               /\ \A i, j \in 1..Len(Live.layers) :
                     (snap.layers[i].material = snap.layers[j].material)
                        <=> (Live.layers[i].material = Live.layers[j].material)]_vars
    /\ [][history' = history =>
            \A n \in Nodes \ {IMG} : images'[n] = images[n]]_vars

\* a snapshot in which two layers have the same material, a live document
\* changed since, with its own cameras and an active camera
C19_Witness ==
    /\ \E n \in Nodes \ {IMG} :
          /\ Len(images[n].layers) >= 2
          /\ images[n].layers[1].material # NULL
          /\ images[n].layers[1].material = images[n].layers[2].material
          /\ images[n].active_camera # NULL
          /\ ObsDoc(images[n]) # ObsDoc(Live)
    /\ Live.active_camera # NULL
    /\ Live.layers[1].material # NULL

\* C20: the document image_new returns, before any operation is called on
\* it, has one layer, one camera and one material, each the active one of
\* its kind; the layer has a positive id and the material as its material;
\* the chain is the live document alone, so that undo and redo change
\* nothing; and saved_key is image_get_key of the document.
C20_NewDocument ==
    ops = MaxOps =>
        /\ Len(Live.layers) = 1
        /\ Len(Live.cameras) = 1
        /\ Len(Live.materials) = 1
        /\ Live.active_layer = Live.layers[1].addr
        /\ Live.active_camera = Live.cameras[1].addr
        /\ Live.active_material = Live.materials[1].addr
        /\ Live.layers[1].id > 0
        /\ Live.layers[1].material = Live.materials[1].addr
        /\ history = <<IMG>>
        /\ DOMAIN images = {IMG}
        /\ image_undo(history, images) = [history |-> history, images |-> images]
        /\ image_redo(history, images) = [history |-> history, images |-> images]
        /\ Live.saved_key = image_get_key(Live)

\* the state image_new returns: its layer, named by make_uniq_name, with the
\* id it got last, and a key that is not the zero of calloc
C20_Witness ==
    /\ ops = MaxOps
    /\ err = "none"
    /\ Live.layers[1].name = Name("Layer", 1, 0)
    /\ Live.layers[1].id = 2
    /\ Live.saved_key # 0

\* C21: image_history_push leaves the live document as it is, and puts
\* one new node right before it, whose content is that of the live document
\* (layers, cameras and materials in order, with ids, names and the active
\* ones); the nodes that were before the live document stay, in their order
\* and with their content, so that there is one more undo step than before.
C21_PushFrame ==
    [][(history' # history /\ err' = "none" /\ ImageHistoryPush) =>
          LET c == Cur(history)
              snap == history'[c]
          IN /\ images'[IMG] = images[IMG]
             /\ Cur(history') = c + 1
             /\ snap \notin Nodes
             /\ ObsDoc(images'[snap]) = ObsDoc(Live)
             /\ \A i \in 1..(c - 1) :
                   /\ history'[i] = history[i]
                   /\ images'[history[i]] = images[history[i]]]_vars

\* a push made with a snapshot before the live document and one after it,
\* of a document that has more than its first layer
C21_Witness ==
    /\ pushed.phase = "pushed"
    /\ pushed.before >= 1
    /\ pushed.discarded = 1
    /\ Len(pushed.doc.layers) >= 2
    /\ ObsDoc(images[history[1]]) # pushed.doc

\* the layers, cameras and materials in the lists of the nodes of chain
Owned(chain, imgs) ==
    [layers |-> UNION {Addrs(imgs[chain[i]].layers) : i \in 1..Len(chain)},
     cameras |-> UNION {Addrs(imgs[chain[i]].cameras) : i \in 1..Len(chain)},
     materials |-> UNION {Addrs(imgs[chain[i]].materials) : i \in 1..Len(chain)}]

\* C22: after image_history_resize, every layer, camera and material that
\* is still allocated is in the lists of a node of the chain: what the
\* removed nodes owned was freed with them.
C22_ResizeFreesEntities ==
    [][\A size \in 0..MaxHistory :
          ImageHistoryResize(size) =>
              /\ heap'.layers \subseteq Owned(history', images').layers
              /\ heap'.cameras \subseteq Owned(history', images').cameras
              /\ heap'.materials \subseteq Owned(history', images').materials]_vars

\* the layer reached from layer a by following base_id n times, as
\* img_get_layer resolves it; NULL where the chain has ended
RECURSIVE FollowBase(_, _, _)
FollowBase(img, a, n) ==
    IF n = 0 \/ a = NULL THEN a
    ELSE FollowBase(img, img_get_layer(img, LayerAt(img, a).base_id), n - 1)

\* layer a comes back to itself by following base_id
OnCloneCycle(img, a) ==
    \E n \in 1..Len(img.layers) : FollowBase(img, a, n) = a

\* C23: the clone relation of the live document is acyclic: no layer comes
\* back to itself by following base_id to the layer with that id, and in
\* particular no layer's base_id is its own id.
C23_CloneRelationAcyclic ==
    \A a \in Addrs(Live.layers) : ~OnCloneCycle(Live, a)

====
